---- MODULE Spec2Model ----
(***************************************************************************)
(* kalahari/mongo-tools: the chunked tar container (package chunktar).     *)
(*                                                                         *)
(* Writer (src/unnamed/part_000): a double-buffered writer that cuts the   *)
(* byte stream of each named entry into tar entries "<name>.<12 digits>",  *)
(* each emitted by one background goroutine.                               *)
(* Reader (src/unnamed/part_001): reassembles the chunks of a tar archive  *)
(* into named logical files.                                               *)
(*                                                                         *)
(* A writer is a record; every method is an operator from records to       *)
(* records, cut at the points where the goroutine blocks (wait.Wait) or    *)
(* enters the tar writer, so that the foreground and the background        *)
(* goroutine interleave as the Go scheduler allows.                        *)
(*                                                                         *)
(* Bytes are natural numbers; the k-th byte the producer ever passes to    *)
(* Write is the number k, so loss, duplication and reordering are visible. *)
(* Names are strings.  Sizes are scaled: bufferThreshold is 4 MiB in the   *)
(* source and a few bytes here; bufferLimit keeps its definition.          *)
(***************************************************************************)
EXTENDS Integers, Sequences, FiniteSets, TLC

VARIABLES w, w2, pending, crossed, r, sinkOk, d

vars == <<w, w2, pending, crossed, r, sinkOk, d>>

(***************************************************************************)
(* Bounds of the model.                                                    *)
(***************************************************************************)
\* bufferThreshold (part_000:15), scaled down from 4 * 1024 * 1024.
bufferThreshold == 2

\* bufferLimit (part_000:16).
bufferLimit == bufferThreshold * 2

\* The longest slice passed to one Write call.
MaxWrite == 5

\* The number of bytes the producer writes in all.
MaxBytes == 6

\* The largest buffer the consumer passes to Reader.Read.
MaxBuf == 2

\* The entry names the producer uses.
Names == {"a", "b"}

\* The producer opens as many entries as it has names: two entries of one
\* name and two entries of different names both occur.
MaxEntries == Cardinality(Names)

\* The chunks of an archive whose chunks are in order.
MaxChunks == 3

\* The archives given to a Reader alone: up to MaxArchive tar entries, named
\* as a chunk of a base name (numbered in ChunkNumbers) or as the base name,
\* with a body of one of BodySizes.
MaxArchive == 2

ChunkNumbers == {0, 1, 2}

Bases == {"x", "y"}

BodySizes == {0, 2}

MinInt(a, b) == IF a < b THEN a ELSE b

(***************************************************************************)
(* fmt.Sprintf("%s.%012d", name, chunkCount) and the regular expression    *)
(* ^(.+)\.(\d{12})$ with strconv.ParseUint.                                *)
(***************************************************************************)
ChunkDigits == 12

DigitChars == <<"0", "1", "2", "3", "4", "5", "6", "7", "8", "9">>

RECURSIVE Decimal(_)
Decimal(n) == IF n < 10 THEN DigitChars[n + 1]
              ELSE Decimal(n \div 10) \o DigitChars[(n % 10) + 1]

RECURSIVE ZeroPad(_, _)
ZeroPad(s, width) == IF Len(s) >= width THEN s ELSE ZeroPad("0" \o s, width)

FormatChunkName(name, count) == name \o "." \o ZeroPad(Decimal(count), ChunkDigits)

IsDigit(c) == \E i \in 1..10 : DigitChars[i] = c

DigitValue(c) == (CHOOSE i \in 1..10 : DigitChars[i] = c) - 1

\* chunkFileNameRegex.FindStringSubmatch(s) # nil
ChunkMatch(s) ==
    /\ Len(s) >= ChunkDigits + 2
    /\ SubSeq(s, Len(s) - ChunkDigits, Len(s) - ChunkDigits) = "."
    /\ \A i \in (Len(s) - ChunkDigits + 1)..Len(s) : IsDigit(SubSeq(s, i, i))

\* match[1]
ChunkBase(s) == SubSeq(s, 1, Len(s) - ChunkDigits - 1)

RECURSIVE ParseUint(_)
ParseUint(s) == IF Len(s) = 0 THEN 0
                ELSE 10 * ParseUint(SubSeq(s, 1, Len(s) - 1))
                     + DigitValue(SubSeq(s, Len(s), Len(s)))

\* strconv.ParseUint(match[2], 10, 64)
ChunkNumber(s) == ParseUint(SubSeq(s, Len(s) - ChunkDigits + 1, Len(s)))

(***************************************************************************)
(* The Writer.                                                             *)
(***************************************************************************)
Idle == [pc |-> "idle", op |-> "none", ret |-> "none", b |-> <<>>,
         start |-> 0, stop |-> 0, hdr |-> ""]

\* NewWriter: both buffers empty, open, no goroutine.  buf holds the two
\* bytes.Buffer objects; inputBuffer and outputBuffer are the pointers.
\* bg holds the goroutines started by swapInOut and not yet finished.
\* entries (with closed) is what the tar writer has been given so far.
\* written, closeDone and last are history: the entries opened with the
\* bytes passed to Write for each, whether a call of Close has returned, and
\* the last call with its result (latched, closedBefore: a background error
\* was stored, a Close had returned, when the call was made; size, buffered:
\* the bytes passed to a Write and the bytes in the input buffer then).  In an entry
\* of the tar writer, ent and by are history too: the number of the entry
\* open when the chunk was cut, and the method that cut it.
NewWriter ==
    [entries |-> <<>>, closed |-> FALSE,
     buf |-> <<(<<>>), (<<>>)>>, inputBuffer |-> 1, outputBuffer |-> 2,
     outputError |-> "nil", open |-> TRUE, wait |-> 0,
     name |-> "", chunkCount |-> 0,
     bg |-> <<>>, fg |-> Idle,
     written |-> <<>>, closeDone |-> FALSE,
     last |-> [op |-> "none", err |-> "nil", latched |-> FALSE, closedBefore |-> FALSE,
               size |-> 0, buffered |-> 0]]

InputLen(x) == Len(x.buf[x.inputBuffer])

\* Return with open set to false only when Close succeeds.
Return_OpenAfterFailedClose(x, err) ==
    [x EXCEPT !.fg = Idle,
              !.last = [@ EXCEPT !.op = x.fg.op, !.err = err],
              !.closeDone = @ \/ x.fg.op = "Close",
              !.open = IF x.fg.op = "Close" /\ err = "nil" THEN FALSE ELSE @]

\* A method returns err to the producer.  Close's deferred function sets
\* open to false on every return after the first check.
Return(x, err) ==
    [x EXCEPT !.fg = Idle,
              !.last = [@ EXCEPT !.op = x.fg.op, !.err = err],
              !.closeDone = @ \/ x.fg.op = "Close",
              !.open = IF x.fg.op = "Close" THEN FALSE ELSE @]

\* The start of a call: what the producer could see at that moment.
Enter(x, op) ==
    [x EXCEPT !.fg = [Idle EXCEPT !.op = op],
              !.last = [op |-> op, err |-> "pending",
                        latched |-> x.outputError # "nil",
                        closedBefore |-> x.closeDone,
                        size |-> 0, buffered |-> 0]]

\* wait.Wait() left out.
WaitDone_NoWait(x) == TRUE

\* wait.Wait() returns
WaitDone(x) == x.wait = 0

\* Flush without its swap of the bytes still in the input buffer.
FlushBody_NoSwap(x) ==
    IF ~x.open THEN Return(x, "not open")
    ELSE [x EXCEPT !.fg.pc = "flush_wait"]

\* Flush, from its first line to the first point where it blocks.
FlushBody(x) ==
    IF ~x.open THEN Return(x, "not open")
    ELSE IF InputLen(x) > 0
         THEN [x EXCEPT !.fg.pc = "swap_wait", !.fg.ret = "flush"]
         ELSE [x EXCEPT !.fg.pc = "flush_wait"]

CallFlush(x) ==
    LET y == Enter(x, "Flush") IN FlushBody(y)

CallClose(x) ==
    LET y == Enter(x, "Close") IN
    IF ~y.open THEN [y EXCEPT !.fg = Idle, !.last.err = "not open"]
    ELSE FlushBody(y)

\* WriteHeader without its Flush of the previous entry.
CallWriteHeader_NoFlush(x, name) ==
    LET y == Enter(x, "WriteHeader") IN
    IF ~y.open THEN Return(y, "not open")
    ELSE Return([y EXCEPT !.name = name, !.chunkCount = 0,
                          !.written = Append(@, [name |-> name, bytes |-> <<>>])],
                "nil")

CallWriteHeader(x, name) ==
    LET y == [Enter(x, "WriteHeader") EXCEPT !.fg.hdr = name] IN
    IF ~y.open THEN Return(y, "not open")
    ELSE FlushBody(y)

\* The end of Write with >= for >.
WriteEnd_AtThreshold(x) ==
    IF InputLen(x) >= bufferThreshold
    THEN [x EXCEPT !.fg.pc = "swap_wait", !.fg.ret = "end"]
    ELSE Return(x, "nil")

\* The end of Write: one swap when the input buffer is over the threshold.
WriteEnd(x) ==
    IF InputLen(x) > bufferThreshold
    THEN [x EXCEPT !.fg.pc = "swap_wait", !.fg.ret = "end"]
    ELSE Return(x, "nil")

\* The first stop without the bytes already in the input buffer.
FirstStop_IgnoreBuffered(writeSize, inputLen) == MinInt(writeSize, bufferLimit)

\* The first stop of Write's loop.
FirstStop(writeSize, inputLen) == MinInt(writeSize, bufferLimit - inputLen)

\* The loop of Write, up to the next swapInOut it has to wait in.  swapped
\* says that the swap of the current iteration has been done.  A slice
\* b[start:stop] with stop < start panics.
RECURSIVE WriteLoop(_, _)
WriteLoop(x, swapped) ==
    IF x.fg.start < Len(x.fg.b)
    THEN IF x.fg.start > 0 /\ ~swapped
         THEN [x EXCEPT !.fg.pc = "swap_wait", !.fg.ret = "loop"]
         ELSE IF x.fg.stop < x.fg.start
              THEN [x EXCEPT !.fg.pc = "panic", !.last.err = "panic"]
              ELSE WriteLoop(
                     [x EXCEPT !.buf[x.inputBuffer] =
                                   @ \o SubSeq(x.fg.b, x.fg.start + 1, x.fg.stop),
                               !.fg.start = x.fg.stop,
                               !.fg.stop = MinInt(x.fg.stop + bufferLimit, Len(x.fg.b))],
                     FALSE)
    ELSE WriteEnd(x)

\* The bytes are recorded for the entry that is open when Write is called.
Record(x, b) ==
    IF Len(x.written) = 0 THEN x
    ELSE [x EXCEPT !.written[Len(x.written)].bytes = @ \o b]

CallWrite(x, b) ==
    LET y == Enter(x, "Write") IN
    IF ~y.open THEN Return(y, "not open")
    ELSE WriteLoop([Record(y, b) EXCEPT !.fg.b = b, !.fg.start = 0,
                                        !.fg.stop = FirstStop(Len(b), InputLen(y)),
                                        !.last.size = Len(b),
                                        !.last.buffered = InputLen(y)],
                   FALSE)

\* swapInOut without chunkCount++.
Exchange_SameNumber(x) ==
    [x EXCEPT !.inputBuffer = x.outputBuffer,
              !.outputBuffer = x.inputBuffer,
              !.wait = @ + 1,
              !.bg = Append(@, [chunkName |-> FormatChunkName(x.name, x.chunkCount),
                                pc |-> "header",
                                ent |-> Len(x.written), by |-> x.fg.op]),
              !.buf[x.outputBuffer] = <<>>]

\* swapInOut after its checks: name the chunk, count it, exchange the
\* buffers, start the goroutine, reset the new input buffer.
Exchange(x) ==
    [x EXCEPT !.chunkCount = @ + 1,
              !.inputBuffer = x.outputBuffer,
              !.outputBuffer = x.inputBuffer,
              !.wait = @ + 1,
              !.bg = Append(@, [chunkName |-> FormatChunkName(x.name, x.chunkCount),
                                pc |-> "header",
                                ent |-> Len(x.written), by |-> x.fg.op]),
              !.buf[x.outputBuffer] = <<>>]

\* swapInOut from the return of wait.Wait(), and then its caller up to the
\* next point where it blocks.
SwapResume(x) ==
    IF x.outputError # "nil" THEN Return(x, x.outputError)
    ELSE LET y == Exchange(x) IN
         CASE x.fg.ret = "flush" -> [y EXCEPT !.fg.pc = "flush_wait"]
           [] x.fg.ret = "loop" -> WriteLoop(y, TRUE)
           [] OTHER -> Return(y, "nil")

\* Flush from the return of its wait.Wait() to the call of tarWriter.Flush.
FlushResume(x) ==
    IF x.outputError # "nil" THEN Return(x, x.outputError)
    ELSE [x EXCEPT !.fg.pc = "tar_flush"]

\* tarWriter.Flush() returns (ok: the sink took the padding), and Flush's
\* caller goes on: Close calls tarWriter.Close, WriteHeader sets the name.
TarFlush(x, ok) ==
    IF ~ok THEN Return(x, "sink")
    ELSE CASE x.fg.op = "Close" -> [x EXCEPT !.fg.pc = "tar_close"]
           [] x.fg.op = "WriteHeader" ->
                Return([x EXCEPT !.name = x.fg.hdr, !.chunkCount = 0,
                                 !.written = Append(@, [name |-> x.fg.hdr, bytes |-> <<>>])],
                       "nil")
           [] OTHER -> Return(x, "nil")

\* tarWriter.Close() returns.
TarClose(x, ok) ==
    IF ~ok THEN Return(x, "sink")
    ELSE Return([x EXCEPT !.closed = TRUE], "nil")

\* The goroutine writeOutput(chunkName), one tar call at a time:
\* tarWriter.WriteHeader with the size of the output buffer, then
\* outputBuffer.WriteTo(tarWriter), which drains the buffer.  A failure is
\* stored in outputError; the deferred wait.Done() ends the goroutine.
GoDone(x, i) ==
    [x EXCEPT !.bg = SubSeq(@, 1, i - 1) \o SubSeq(@, i + 1, Len(@)),
              !.wait = @ - 1]

WriteOutput(x, i, ok) ==
    IF x.bg[i].pc = "header"
    THEN IF ~ok THEN GoDone([x EXCEPT !.outputError = "sink"], i)
         ELSE [x EXCEPT !.entries = Append(@, [name |-> x.bg[i].chunkName,
                                               size |-> Len(x.buf[x.outputBuffer]),
                                               body |-> <<>>,
                                               ent |-> x.bg[i].ent,
                                               by |-> x.bg[i].by]),
                        !.bg[i].pc = "body"]
    ELSE IF ~ok THEN GoDone([x EXCEPT !.outputError = "sink"], i)
         ELSE GoDone([x EXCEPT !.entries[Len(x.entries)].body = @ \o x.buf[x.outputBuffer],
                               !.buf[x.outputBuffer] = <<>>], i)

(***************************************************************************)
(* The Reader over a tar archive: a sequence of entries (name, body).      *)
(* pos is the entry the tar reader stands in (0 before the first,          *)
(* Len + 1 once tarReader.Next has returned io.EOF), off the bytes of it   *)
(* already read; eager is the tar reader's way of reporting io.EOF.        *)
(* files, got, atEOF, log and last are history: the number of names Next   *)
(* has returned, the bytes Read has returned since the last of them,       *)
(* whether the last Read reported io.EOF, whether no Next has failed since *)
(* the last name (clean), what nextChunk decided for each                  *)
(* tar header it read, the tar entries at which Next or Read returned a    *)
(* chunk error, and the result of the last call (blocked: a name was        *)
(* pending or no file was current when Read was called).  own is history:  *)
(* the tar entries whose headers made or continued the current file.       *)
(***************************************************************************)
NewReader(archive, eager) ==
    [opened |-> TRUE, archive |-> archive, eager |-> eager,
     pos |-> 0, off |-> 0,
     name |-> "", number |-> 0, nextName |-> "",
     err |-> "nil",
     files |-> 0, got |-> <<>>, atEOF |-> FALSE, clean |-> FALSE,
     log |-> <<>>, failedAt |-> {}, own |-> {},
     last |-> [op |-> "none", n |-> 0, err |-> "nil", name |-> "", blocked |-> FALSE]]

NoReader == [NewReader(<<>>, FALSE) EXCEPT !.opened = FALSE]

\* nextChunk rejecting only a chunk number that does not grow.
ChunkVerdict_AllowGaps(name, number, h) ==
    IF ChunkMatch(h)
    THEN IF ChunkBase(h) = name
         THEN IF ChunkNumber(h) <= number THEN "order" ELSE "cont"
         ELSE IF ChunkNumber(h) # 0 THEN "missing" ELSE "new"
    ELSE "unchunked"

\* What nextChunk does with a tar header named h: "cont" (the next chunk
\* of the current file), "order", "missing" (its two errors), "new" (the
\* first chunk of another file) or "unchunked".
ChunkVerdict(name, number, h) ==
    IF ChunkMatch(h)
    THEN IF ChunkBase(h) = name
         THEN IF ChunkNumber(h) # number + 1 THEN "order" ELSE "cont"
         ELSE IF ChunkNumber(h) # 0 THEN "missing" ELSE "new"
    ELSE "unchunked"

\* nextChunk: tarReader.Next(), then the header's name decides.  The error
\* returned is left in err.
NextChunk(x) ==
    IF x.pos >= Len(x.archive)
    THEN [x EXCEPT !.pos = Len(x.archive) + 1, !.off = 0, !.err = "EOF"]
    ELSE LET h == x.archive[x.pos + 1].name
             v == ChunkVerdict(x.name, x.number, h)
             y == [x EXCEPT !.pos = @ + 1, !.off = 0,
                            !.log = Append(@, [pos |-> x.pos + 1, name |-> x.name,
                                               number |-> x.number, verdict |-> v])]
         IN CASE v = "cont" -> [y EXCEPT !.number = ChunkNumber(h), !.err = "nil",
                                         !.own = @ \cup {x.pos + 1}]
              [] v = "new" -> [y EXCEPT !.nextName = ChunkBase(h), !.name = "", !.err = "nil"]
              [] v = "unchunked" -> [y EXCEPT !.nextName = h, !.name = "", !.err = "nil"]
              [] OTHER -> [y EXCEPT !.err = v]

\* Next: call nextChunk until a name is pending or an error comes back.
RECURSIVE NextLoop(_)
NextLoop(x) ==
    IF x.nextName = ""
    THEN LET y == NextChunk(x) IN
         IF y.nextName = "" /\ y.err # "nil"
         THEN [y EXCEPT !.last = [op |-> "Next", n |-> 0, err |-> y.err, name |-> "",
                                  blocked |-> FALSE],
                        !.clean = FALSE,
                        !.failedAt = IF y.err = "EOF" THEN @ ELSE @ \cup {y.pos}]
         ELSE NextLoop(y)
    ELSE [x EXCEPT !.name = x.nextName, !.nextName = "", !.number = 0,
                   !.files = @ + 1, !.got = <<>>, !.atEOF = FALSE, !.clean = TRUE,
                   !.own = {x.pos},
                   !.last = [op |-> "Next", n |-> 0, err |-> "nil", name |-> x.nextName,
                             blocked |-> FALSE]]

ReaderNext(x) == NextLoop([x EXCEPT !.err = "nil"])

\* tarReader.Read(b) with len(b) = k > 0: up to k bytes of the current
\* entry.  io.Reader lets the call that returns the last bytes return
\* io.EOF with them or leave it to the next call, and archive/tar has done
\* both over its versions: the eager field of the reader says which.
TarRead(x, k) ==
    IF x.pos = 0 \/ x.pos > Len(x.archive) THEN [n |-> 0, data |-> <<>>, err |-> "EOF"]
    ELSE LET body == x.archive[x.pos].body
             rem == Len(body) - x.off
             n == MinInt(k, rem)
         IN [n |-> n, data |-> SubSeq(body, x.off + 1, x.off + n),
             err |-> IF rem = 0 \/ (n = rem /\ x.eager) THEN "EOF" ELSE "nil"]

Deliver(x, blocked, data, err) ==
    [x EXCEPT !.got = @ \o data,
              !.atEOF = (err = "EOF"),
              !.err = err,
              !.failedAt = IF err \in {"order", "missing"} THEN @ \cup {x.pos} ELSE @,
              !.last = [op |-> "Read", n |-> Len(data), err |-> err, name |-> "",
                        blocked |-> blocked]]

\* Read from its call of tarReader.Read on.
ReadEntry(x, k) ==
    LET t == TarRead(x, k)
        x1 == [x EXCEPT !.off = @ + t.n]
    IN IF t.err = "EOF"
       THEN LET y == NextChunk(x1) IN
            IF y.err # "nil" THEN Deliver(y, FALSE, t.data, y.err)
            ELSE IF t.n = 0 /\ y.nextName = ""
                 THEN LET u == TarRead(y, k) IN
                      Deliver([y EXCEPT !.off = @ + u.n], FALSE, u.data, u.err)
                 ELSE Deliver(y, FALSE, t.data, "nil")
       ELSE Deliver(x1, FALSE, t.data, t.err)

\* The first check of Read.
Blocked(x) == x.nextName # "" \/ x.name = ""

\* Read without its first check.
ReaderRead_NoPendingCheck(x, k) ==
    IF k = 0 THEN Deliver(x, Blocked(x), <<>>, "nil")
    ELSE [ReadEntry(x, k) EXCEPT !.last.blocked = Blocked(x)]

\* Read(b) with len(b) = k.
ReaderRead(x, k) ==
    IF Blocked(x) THEN Deliver(x, TRUE, <<>>, "EOF")
    ELSE IF k = 0 THEN Deliver(x, FALSE, <<>>, "nil")
    ELSE ReadEntry(x, k)

(***************************************************************************)
(* The tar restore driver (src/mongorestore/chunktar.go): RestoreTarDump   *)
(* walks the logical files of an archive in one pass and calls the restore *)
(* collaborators.  The driver is cut at its calls of chunkReader.Next and  *)
(* of the collaborators: pc says which call it waits in, site where        *)
(* ChangeCollection was called from ("db": inside ChangeDatabase, "coll":  *)
(* the loop, "end": after the loop), cur holds the loop's locals db,       *)
(* collection and fileType.  files and calls are history: the names Next   *)
(* has returned and the collaborator calls made, each with its result     *)
(* (res), the number of the file it was made for (file) and, for           *)
(* IndexesFromBSONReader, the collections it found indexes for (keys).     *)
(***************************************************************************)
\* The archive of Scenario D: system.indexes with one index for orders,
\* the metadata of users with its index, users, orders.
ScenarioD == <<"db1/system.indexes.bson", "db1/users.metadata.json",
               "db1/users.bson", "db1/orders.bson">>

\* The driver is given archives as long as that of Scenario D.
MaxFiles == Len(ScenarioD)

\* The logical file names chunkReader.Next returns.
FileNames == {"db1/system.indexes.bson", "db1/users.metadata.json",
              "db1/users.bson", "db1/orders.bson", "db2/users.bson",
              "db1/README", "db.1/users.bson"}

\* The collaborator calls that return an error, and the calls of
\* CreateIntentForFile that return nil, in one run.
MaxFailures == 1

MaxRefusals == 1

\* The sets of collections IndexesFromBSONReader may find indexes for.
IndexedCollections == {{"orders"}, {"orders", "system.indexes"}}

\* The collections (database, name) the target server holds before the
\* restore.
ExistingCollections == {<<"db1", "users">>}

\* The values of the options --db and --collection.
Targets == {<<"", "">>, <<"db1", "">>, <<"db1", "users">>}

HasPrefix(s, prefix) ==
    Len(s) >= Len(prefix) /\ SubSeq(s, 1, Len(prefix)) = prefix

HasSuffix(s, suffix) ==
    Len(s) >= Len(suffix) /\ SubSeq(s, Len(s) - Len(suffix) + 1, Len(s)) = suffix

Contains(s, c) == \E i \in 1..Len(s) : SubSeq(s, i, i) = c

UnknownFileType == "unknown"

BSONFileType == "bson"

MetadataFileType == "metadata"

\* The name classifier: <db>/<col>.bson, <db>/<col>.metadata.json, or
\* unknown.
GetInfoFromTarHeaderName(fileName) ==
    LET unknown == [db |-> "", c |-> "", kind |-> UnknownFileType] IN
    IF ~Contains(fileName, "/") THEN unknown
    ELSE LET i == CHOOSE k \in 1..Len(fileName) :
                     /\ SubSeq(fileName, k, k) = "/"
                     /\ \A j \in 1..(k - 1) : SubSeq(fileName, j, j) # "/"
             db == SubSeq(fileName, 1, i - 1)
             base == SubSeq(fileName, i + 1, Len(fileName))
         IN IF HasSuffix(base, ".metadata.json")
            THEN [db |-> db, c |-> SubSeq(base, 1, Len(base) - 14),
                  kind |-> MetadataFileType]
            ELSE IF HasSuffix(base, ".bson")
                 THEN [db |-> db, c |-> SubSeq(base, 1, Len(base) - 5),
                       kind |-> BSONFileType]
                 ELSE unknown

\* util.ValidateDBName and util.ValidateCollectionGrammar.
ValidateDBName(db) == db # "" /\ ~Contains(db, ".") /\ ~Contains(db, "/")

ValidateCollectionGrammar(c) == c # "" /\ ~Contains(c, "$")

\* A nil *intents.Intent, a nil []IndexDocument, a nil map.
NilIntent == [nil |-> TRUE, DB |-> "", C |-> "", kind |-> ""]

NoIndexes == <<>>

NilMap == [nil |-> TRUE, db |-> "", keys |-> {}]

NewTarRestoreState(DB, Collection) ==
    [PastDbs |-> <<>>, CurrentDb |-> DB, SingleDb |-> DB # "",
     PastCollections |-> <<>>, CurrentCollection |-> Collection,
     SingleCollection |-> Collection # "",
     UsesMetadataFiles |-> FALSE, RestoredMetadata |-> FALSE,
     RestoredBSON |-> FALSE, CollectionExists |-> FALSE,
     MetadataIndexes |-> NoIndexes, SystemIndexes |-> NilMap,
     Intent |-> NilIntent]

\* RestoreTarDump up to its first call of chunkReader.Next.
NewDriver(DB, Collection, NoIndexRestore) ==
    [opts |-> [DB |-> DB, Collection |-> Collection, NoIndexRestore |-> NoIndexRestore],
     st |-> NewTarRestoreState(DB, Collection),
     pc |-> "next", site |-> "",
     cur |-> [db |-> "", c |-> "", kind |-> ""],
     result |-> "none",
     files |-> <<>>, calls |-> <<>>]

NoDriver == [NewDriver("", "", FALSE) EXCEPT !.pc = "off"]

\* The driver calls a collaborator and waits for it.
Invoke(x, op, pc, intent, specs) ==
    [x EXCEPT !.pc = pc,
              !.calls = Append(@, [op |-> op, intent |-> intent, specs |-> specs,
                                   res |-> "called", file |-> Len(x.files),
                                   keys |-> {}])]

\* The collaborator returns.
Returned(x, ok) ==
    [x EXCEPT !.calls[Len(x.calls)].res = IF ok THEN "ok" ELSE "error"]

\* RestoreTarDump returns err.
ReturnError(x) == [x EXCEPT !.pc = "returned", !.result = "error"]

\* continue: back to chunkReader.Next.
Continue(x) == [x EXCEPT !.pc = "next", !.site = ""]

isSystemCollection(x) == HasPrefix(x.cur.c, "system.")

\* The loop body from the dispatch on the file type (line 455).
Dispatch(x) ==
    IF x.cur.kind = MetadataFileType /\ ~isSystemCollection(x)
    THEN Invoke(x, "RestoreCollectionMetadata", "metadata", x.st.Intent, NoIndexes)
    ELSE IF x.cur.kind = BSONFileType
         THEN IF x.cur.c = "system.indexes" /\ ~x.opts.NoIndexRestore
              THEN Invoke(x, "IndexesFromBSONReader", "parse", x.st.Intent, NoIndexes)
              ELSE Invoke(x, "RestoreCollectionBSON", "bson", x.st.Intent, NoIndexes)
         ELSE Continue(x)

\* RestoreBeginCollection called although the metadata has been restored.
BeginCollection_AfterMetadata(x) ==
    IF ~x.st.RestoredBSON /\ ~isSystemCollection(x)
    THEN Invoke(x, "RestoreBeginCollection", "begin", x.st.Intent, NoIndexes)
    ELSE Dispatch(x)

\* The loop body from line 448, with the intent made.
BeginCollection(x) ==
    IF ~x.st.RestoredMetadata /\ ~x.st.RestoredBSON /\ ~isSystemCollection(x)
    THEN Invoke(x, "RestoreBeginCollection", "begin", x.st.Intent, NoIndexes)
    ELSE Dispatch(x)

\* The loop body from the late-metadata guard (line 436) to the call of
\* CreateIntentForFile.
LateMetadataGuard(x) ==
    IF x.st.RestoredBSON /\ x.cur.kind = MetadataFileType
    THEN Continue(x)
    ELSE Invoke(x, "CreateIntentForFile", "intent", NilIntent, NoIndexes)

\* The end of ChangeCollection: the per-collection fields are reset.
ResetCollection(x) ==
    [x EXCEPT !.st.RestoredMetadata = FALSE, !.st.RestoredBSON = FALSE,
              !.st.CollectionExists = FALSE, !.st.MetadataIndexes = NoIndexes]

\* ChangeCollection(collection) up to its call of RestoreCollectionIndexes,
\* or to its end when it makes none (pc is left as it was).  Reading
\* state.Intent.C with a nil Intent panics.
ChangeCollection(x, collection, site) ==
    LET y == [x EXCEPT !.st.PastCollections =
                            IF x.st.CurrentCollection # ""
                            THEN Append(@, x.st.CurrentCollection) ELSE @,
                       !.st.CurrentCollection = collection,
                       !.st.UsesMetadataFiles = FALSE,
                       !.site = site]
    IN IF y.st.RestoredMetadata
       THEN Invoke(y, "RestoreCollectionIndexes", "indexes", y.st.Intent,
                   y.st.MetadataIndexes)
       ELSE IF ~y.st.SystemIndexes.nil
            THEN IF y.st.Intent.nil THEN [y EXCEPT !.pc = "panic"]
                 ELSE IF y.st.Intent.C \in y.st.SystemIndexes.keys
                      THEN Invoke(y, "RestoreCollectionIndexes", "indexes", y.st.Intent,
                                  <<"system.indexes", y.st.SystemIndexes.db, y.st.Intent.C>>)
                      ELSE ResetCollection(y)
            ELSE ResetCollection(y)

\* ChangeDatabase(db) up to the same point.
ChangeDatabase(x, db) ==
    ChangeCollection(
        [x EXCEPT !.st.PastDbs = IF x.st.CurrentDb # "" THEN Append(@, x.st.CurrentDb) ELSE @,
                  !.st.CurrentDb = db,
                  !.st.PastCollections = <<>>,
                  !.st.SystemIndexes = NilMap],
        "", "db")

\* The collection changed whatever the mode.
CollectionTransition_NoFilter(x) ==
    IF x.cur.c # x.st.CurrentCollection
    THEN LET y == ChangeCollection(x, x.cur.c, "coll") IN
         IF y.pc \in {"indexes", "panic"} THEN y ELSE LateMetadataGuard(y)
    ELSE LateMetadataGuard(x)

\* The loop body from the collection transition (line 423); the value
\* ChangeCollection returns is dropped.
CollectionTransition(x) ==
    IF x.cur.c # x.st.CurrentCollection
    THEN IF x.st.SingleCollection /\ ~isSystemCollection(x)
         THEN Continue(x)
         ELSE LET y == ChangeCollection(x, x.cur.c, "coll") IN
              IF y.pc \in {"indexes", "panic"} THEN y ELSE LateMetadataGuard(y)
    ELSE LateMetadataGuard(x)

\* The database changed whatever the mode.
DatabaseTransition_NoFilter(x) ==
    IF x.cur.db # x.st.CurrentDb
    THEN LET y == ChangeDatabase(x, x.cur.db) IN
         IF y.pc \in {"indexes", "panic"} THEN y ELSE CollectionTransition(y)
    ELSE CollectionTransition(x)

\* The loop body from the database transition (line 409); the value
\* ChangeDatabase returns is dropped.
DatabaseTransition(x) ==
    IF x.cur.db # x.st.CurrentDb
    THEN IF x.st.SingleDb
         THEN Continue(x)
         ELSE LET y == ChangeDatabase(x, x.cur.db) IN
              IF y.pc \in {"indexes", "panic"} THEN y ELSE CollectionTransition(y)
    ELSE CollectionTransition(x)

\* chunkReader.Next has returned fileName: the loop body from its start.
LoopBody(x, fileName) ==
    LET info == GetInfoFromTarHeaderName(fileName)
        y == [x EXCEPT !.files = Append(@, fileName), !.cur = info]
    IN IF info.kind = UnknownFileType THEN Continue(y)
       ELSE IF ~ValidateDBName(info.db) THEN Continue(y)
       ELSE IF ~ValidateCollectionGrammar(info.c) THEN Continue(y)
       ELSE DatabaseTransition(y)

\* chunkReader.Next has returned io.EOF: return state.ChangeCollection("").
AfterLoop(x) ==
    LET y == ChangeCollection(x, "", "end") IN
    IF y.pc \in {"indexes", "panic"} THEN y
    ELSE [y EXCEPT !.pc = "returned", !.result = "nil"]

\* RestoreCollectionIndexes has returned inside ChangeCollection:
\* ChangeCollection returns, and its caller goes on (pc "body": in the loop
\* body, in no call).
AfterIndexes(x, ok) ==
    LET z == [Returned(x, ok) EXCEPT !.pc = "body"]
        y == IF ok THEN ResetCollection(z) ELSE z IN
    CASE x.site = "db" -> CollectionTransition(y)
      [] x.site = "coll" -> LateMetadataGuard(y)
      [] OTHER -> [y EXCEPT !.pc = "returned",
                            !.result = IF ok THEN "nil" ELSE "error"]

\* CreateIntentForFile has returned (nil when it refuses).
AfterIntent(x, refuse) ==
    LET y == [x EXCEPT !.calls[Len(x.calls)].res = IF refuse THEN "nil" ELSE "ok"] IN
    IF refuse THEN Continue([y EXCEPT !.st.Intent = NilIntent])
    ELSE BeginCollection(
           [y EXCEPT !.st.Intent = [nil |-> FALSE, DB |-> x.cur.db, C |-> x.cur.c,
                                    kind |-> x.cur.kind],
                     !.st.UsesMetadataFiles = @ \/ x.cur.kind = MetadataFileType])

\* What RestoreBeginCollection reports: the collection was there before
\* the restore, or an earlier call for it has made it.
Exists(x) ==
    \/ <<x.cur.db, x.cur.c>> \in ExistingCollections
    \/ \E i \in 1..(Len(x.calls) - 1) :
          /\ x.calls[i].op = "RestoreBeginCollection" /\ x.calls[i].res = "ok"
          /\ x.calls[i].intent.DB = x.cur.db /\ x.calls[i].intent.C = x.cur.c

\* RestoreBeginCollection has returned.
AfterBegin(x, ok) ==
    LET y == [Returned(x, ok) EXCEPT !.st.CollectionExists = ok /\ Exists(x)] IN
    IF ~ok THEN ReturnError(y) ELSE Dispatch(y)

\* RestoreCollectionMetadata has returned.
AfterMetadata(x, ok) ==
    IF ~ok THEN ReturnError([Returned(x, ok) EXCEPT !.st.MetadataIndexes = NoIndexes])
    ELSE Continue([Returned(x, ok) EXCEPT
                     !.st.MetadataIndexes = <<"metadata", x.cur.db, x.cur.c>>,
                     !.st.RestoredMetadata = TRUE])

\* IndexesFromBSONReader has returned: err is not looked at.
AfterParse(x, keys, ok) ==
    Continue([Returned(x, ok) EXCEPT
                !.calls[Len(x.calls)].keys = IF ok THEN keys ELSE {},
                !.st.SystemIndexes = IF ok THEN [nil |-> FALSE, db |-> x.cur.db, keys |-> keys]
                                     ELSE NilMap])

\* RestoreCollectionBSON has returned: err is not looked at.
AfterBSON(x, ok) == Continue(Returned(x, ok))

(***************************************************************************)
(* The producer, the goroutines and the sink.                              *)
(***************************************************************************)
BytesWritten(x) ==
    LET RECURSIVE Sum(_)
        Sum(i) == IF i = 0 THEN 0 ELSE Len(x.written[i].bytes) + Sum(i - 1)
    IN Sum(Len(x.written))

\* The next n bytes of the producer.
Fresh(x, n) == [i \in 1..n |-> BytesWritten(x) + i]

\* The foreground goroutine goes on without the barrier.
FgEnabled_NoBarrier(x) ==
    x.fg.pc \in {"swap_wait", "flush_wait", "tar_flush", "tar_close"}

\* The foreground goroutine can go on from where it is.
FgEnabled(x) ==
    \/ x.fg.pc \in {"swap_wait", "flush_wait"} /\ WaitDone(x)
    \/ x.fg.pc \in {"tar_flush", "tar_close"}

FgStep(x, ok) ==
    CASE x.fg.pc = "swap_wait" -> SwapResume(x)
      [] x.fg.pc = "flush_wait" -> FlushResume(x)
      [] x.fg.pc = "tar_flush" -> TarFlush(x, ok)
      [] OTHER -> TarClose(x, ok)

Producing == w.fg.pc = "idle" /\ ~r.opened

Init == /\ w = NewWriter
        /\ w2 = NewWriter
        /\ pending = <<>>
        /\ crossed = FALSE
        /\ r = NoReader
        /\ sinkOk = TRUE
        /\ d = NoDriver

Close == /\ Producing
         /\ w' = CallClose(w)
         /\ UNCHANGED <<w2, pending, crossed, r, sinkOk, d>>

Flush == /\ Producing
         /\ w' = CallFlush(w)
         /\ UNCHANGED <<w2, pending, crossed, r, sinkOk, d>>

WriteHeader == /\ Producing
               /\ Len(w.written) < MaxEntries
               /\ \E name \in Names : w' = CallWriteHeader(w, name)
               /\ UNCHANGED <<w2, pending, crossed, r, sinkOk, d>>

Write == /\ Producing
         /\ Len(w.written) > 0
         /\ \E n \in 0..MaxWrite :
               /\ BytesWritten(w) + n <= MaxBytes
               /\ w' = CallWrite(w, Fresh(w, n))
         /\ UNCHANGED <<w2, pending, crossed, r, sinkOk, d>>

\* The foreground goroutine goes on from where it was blocked.
Foreground ==
    /\ FgEnabled(w)
    /\ w' = FgStep(w, sinkOk)
    /\ UNCHANGED <<w2, pending, crossed, r, sinkOk, d>>

\* A background goroutine makes its next call of the tar writer.
Background ==
    /\ \E i \in 1..Len(w.bg) : w' = WriteOutput(w, i, sinkOk)
    /\ UNCHANGED <<w2, pending, crossed, r, sinkOk, d>>

\* The underlying io.Writer starts to fail, and the tar writer with it.
SinkFails ==
    /\ sinkOk /\ ~w.closed
    /\ sinkOk' = FALSE
    /\ UNCHANGED <<w, w2, pending, crossed, r, d>>

Next == \/ Close \/ Flush \/ WriteHeader \/ Write
        \/ Foreground \/ Background \/ SinkFails

Spec == Init /\ [][Next]_vars

(***************************************************************************)
(* Round trip: a producer on a sink that works, then a consumer that opens  *)
(* the archive when a successful Close has returned.                       *)
(***************************************************************************)
ArchiveOf(entries) ==
    [i \in 1..Len(entries) |-> [name |-> entries[i].name, body |-> entries[i].body]]

OpenReader ==
    /\ w.closed /\ w.fg.pc = "idle" /\ w.last.op = "Close" /\ ~r.opened
    /\ \E eager \in BOOLEAN : r' = NewReader(ArchiveOf(w.entries), eager)
    /\ UNCHANGED <<w, w2, pending, crossed, sinkOk, d>>

ReadNext ==
    /\ r.opened
    /\ r' = ReaderNext(r)
    /\ UNCHANGED <<w, w2, pending, crossed, sinkOk, d>>

Read ==
    /\ r.opened
    /\ \E k \in 0..MaxBuf : r' = ReaderRead(r, k)
    /\ UNCHANGED <<w, w2, pending, crossed, sinkOk, d>>

NextRoundTrip ==
    \/ Close \/ Flush \/ WriteHeader \/ Write
    \/ Foreground \/ Background
    \/ OpenReader \/ ReadNext \/ Read

SpecRoundTrip == Init /\ [][NextRoundTrip]_vars

(***************************************************************************)
(* Two producers of one stream on sinks that work: w passes each slice in  *)
(* one Write, w2 passes it byte by byte (pending holds the bytes of the    *)
(* slice w2 has still to write); WriteHeader, Flush and Close are called   *)
(* on both at the same points of the stream.  crossed records that a       *)
(* slice took the input buffer of w beyond bufferThreshold + 1 bytes.      *)
(***************************************************************************)
BothIdle == w.fg.pc = "idle" /\ w2.fg.pc = "idle" /\ pending = <<>>

PairClose ==
    /\ BothIdle
    /\ w' = CallClose(w) /\ w2' = CallClose(w2)
    /\ UNCHANGED <<pending, crossed, r, sinkOk, d>>

PairFlush ==
    /\ BothIdle
    /\ w' = CallFlush(w) /\ w2' = CallFlush(w2)
    /\ UNCHANGED <<pending, crossed, r, sinkOk, d>>

PairWriteHeader ==
    /\ BothIdle
    /\ Len(w.written) < MaxEntries
    /\ \E name \in Names : /\ w' = CallWriteHeader(w, name)
                           /\ w2' = CallWriteHeader(w2, name)
    /\ UNCHANGED <<pending, crossed, r, sinkOk, d>>

PairWrite ==
    /\ BothIdle
    /\ w.open /\ Len(w.written) > 0
    /\ \E n \in 1..MaxWrite :
          /\ BytesWritten(w) + n <= MaxBytes
          /\ w' = CallWrite(w, Fresh(w, n))
          /\ pending' = Fresh(w, n)
          /\ crossed' = (crossed \/ InputLen(w) + n > bufferThreshold + 1)
    /\ UNCHANGED <<w2, r, sinkOk, d>>

WriteByte ==
    /\ w2.fg.pc = "idle" /\ pending # <<>>
    /\ w2' = CallWrite(w2, <<Head(pending)>>)
    /\ pending' = Tail(pending)
    /\ UNCHANGED <<w, crossed, r, sinkOk, d>>

PairForeground ==
    /\ \/ FgEnabled(w) /\ w' = FgStep(w, TRUE) /\ UNCHANGED w2
       \/ FgEnabled(w2) /\ w2' = FgStep(w2, TRUE) /\ UNCHANGED w
    /\ UNCHANGED <<pending, crossed, r, sinkOk, d>>

PairBackground ==
    /\ \/ w.bg # <<>> /\ w' = WriteOutput(w, 1, TRUE) /\ UNCHANGED w2
       \/ w2.bg # <<>> /\ w2' = WriteOutput(w2, 1, TRUE) /\ UNCHANGED w
    /\ UNCHANGED <<pending, crossed, r, sinkOk, d>>

NextPair == \/ PairClose \/ PairFlush \/ PairWriteHeader \/ PairWrite
            \/ WriteByte \/ PairForeground \/ PairBackground

SpecPair == Init /\ [][NextPair]_vars

(***************************************************************************)
(* A Reader alone, over any archive of tar entries: chunks in any order,   *)
(* with gaps, and entries that are no chunks.  The byte at offset i of the *)
(* p-th tar entry is the number 10 * p + i.                                *)
(***************************************************************************)
EntryNames == {FormatChunkName(b, k) : b \in Bases, k \in ChunkNumbers} \cup Bases

Archives ==
    UNION {[1..n -> EntryNames \X BodySizes] : n \in 0..MaxArchive}

MakeArchive(f) ==
    [p \in DOMAIN f |-> [name |-> f[p][1],
                         body |-> [i \in 1..f[p][2] |-> 10 * p + i]]]

InitReader ==
    /\ w = NewWriter
    /\ w2 = NewWriter
    /\ pending = <<>>
    /\ crossed = FALSE
    /\ sinkOk = TRUE
    /\ d = NoDriver
    /\ \E f \in Archives, eager \in BOOLEAN : r = NewReader(MakeArchive(f), eager)

NextReader == ReadNext \/ Read

SpecReader == InitReader /\ [][NextReader]_vars

(***************************************************************************)
(* A Reader over an archive whose chunks are correctly ordered: the chunks *)
(* 0, 1, ... of one logical file and then those of another, each with a    *)
(* body of one of BodySizes.                                               *)
(***************************************************************************)
OrderedNames(n, s) ==
    [p \in 1..n |-> IF p <= s THEN FormatChunkName("x", p - 1)
                               ELSE FormatChunkName("y", p - s - 1)]

OrderedArchives ==
    {[p \in 1..n |-> <<OrderedNames(n, s)[p], z[p]>>] :
        <<n, s, z>> \in UNION {{<<m, t, y>> : t \in 1..m, y \in [1..m -> BodySizes]} :
                                 m \in 1..MaxChunks}}

InitOrdered ==
    /\ w = NewWriter
    /\ w2 = NewWriter
    /\ pending = <<>>
    /\ crossed = FALSE
    /\ sinkOk = TRUE
    /\ d = NoDriver
    /\ \E f \in OrderedArchives, eager \in BOOLEAN : r = NewReader(MakeArchive(f), eager)

SpecOrdered == InitOrdered /\ [][NextReader]_vars

(***************************************************************************)
(* The driver with its Reader and its collaborators as the environment.    *)
(***************************************************************************)
\* The results the collaborators may return next.
Failures(x) == Cardinality({i \in DOMAIN x.calls : x.calls[i].res = "error"})

Refusals(x) == Cardinality({i \in DOMAIN x.calls : x.calls[i].res = "nil"})

Results(x) == IF Failures(x) < MaxFailures THEN BOOLEAN ELSE {TRUE}

NextFile ==
    /\ d.pc = "next" /\ Len(d.files) < MaxFiles
    /\ \E fileName \in FileNames : d' = LoopBody(d, fileName)
    /\ UNCHANGED <<w, w2, pending, crossed, r, sinkOk>>

EndOfArchive ==
    /\ d.pc = "next"
    /\ d' = AfterLoop(d)
    /\ UNCHANGED <<w, w2, pending, crossed, r, sinkOk>>

\* chunkReader.Next returns an error that is not io.EOF.
ReaderFails ==
    /\ d.pc = "next"
    /\ d' = ReturnError(d)
    /\ UNCHANGED <<w, w2, pending, crossed, r, sinkOk>>

IndexesReturn ==
    /\ d.pc = "indexes"
    /\ \E ok \in Results(d) : d' = AfterIndexes(d, ok)
    /\ UNCHANGED <<w, w2, pending, crossed, r, sinkOk>>

IntentReturns ==
    /\ d.pc = "intent"
    /\ \E refuse \in (IF Refusals(d) < MaxRefusals THEN BOOLEAN ELSE {FALSE}) :
          d' = AfterIntent(d, refuse)
    /\ UNCHANGED <<w, w2, pending, crossed, r, sinkOk>>

BeginReturns ==
    /\ d.pc = "begin"
    /\ \E ok \in Results(d) : d' = AfterBegin(d, ok)
    /\ UNCHANGED <<w, w2, pending, crossed, r, sinkOk>>

MetadataReturns ==
    /\ d.pc = "metadata"
    /\ \E ok \in Results(d) : d' = AfterMetadata(d, ok)
    /\ UNCHANGED <<w, w2, pending, crossed, r, sinkOk>>

ParseReturns ==
    /\ d.pc = "parse"
    /\ \E keys \in IndexedCollections, ok \in Results(d) : d' = AfterParse(d, keys, ok)
    /\ UNCHANGED <<w, w2, pending, crossed, r, sinkOk>>

BSONReturns ==
    /\ d.pc = "bson"
    /\ \E ok \in Results(d) : d' = AfterBSON(d, ok)
    /\ UNCHANGED <<w, w2, pending, crossed, r, sinkOk>>

InitDriver ==
    /\ w = NewWriter
    /\ w2 = NewWriter
    /\ pending = <<>>
    /\ crossed = FALSE
    /\ sinkOk = TRUE
    /\ r = NoReader
    /\ \E t \in Targets, NoIndexRestore \in BOOLEAN : d = NewDriver(t[1], t[2], NoIndexRestore)

NextDriver == \/ NextFile \/ EndOfArchive \/ ReaderFails
              \/ IndexesReturn \/ IntentReturns \/ BeginReturns
              \/ MetadataReturns \/ ParseReturns \/ BSONReturns

SpecDriver == InitDriver /\ [][NextDriver]_vars

(***************************************************************************)
(* Properties.                                                             *)
(***************************************************************************)
\* The tar entries cut for the i-th opened entry, in order.
ChunksOf(x, i) == SelectSeq(x.entries, LAMBDA e : e.ent = i)

\* The number of tar entries before the j-th that were cut for the same
\* opened entry.
IndexInEntry(x, j) ==
    Cardinality({k \in 1..(j - 1) : x.entries[k].ent = x.entries[j].ent})

\* The j-th tar entry is not the last one cut for its opened entry.
NotLastOfEntry(x, j) ==
    \E k \in (j + 1)..Len(x.entries) : x.entries[k].ent = x.entries[j].ent

Range(q) == {q[i] : i \in DOMAIN q}

\* The logical files of an archive: a chunk numbered 0 or a name that is no
\* chunk name starts a file, any other chunk continues the last one.
RECURSIVE Reassemble(_)
Reassemble(archive) ==
    IF archive = <<>> THEN <<>>
    ELSE LET e == archive[Len(archive)]
             before == Reassemble(SubSeq(archive, 1, Len(archive) - 1))
         IN IF ChunkMatch(e.name) /\ ChunkNumber(e.name) # 0 /\ before # <<>>
            THEN [before EXCEPT ![Len(before)].bytes = @ \o e.body]
            ELSE Append(before, [name |-> IF ChunkMatch(e.name) THEN ChunkBase(e.name)
                                          ELSE e.name,
                                 bytes |-> e.body])

\* C1: round trip.  Reading the archive of a closed Writer, the i-th
\* successful Next returns the name of the i-th WriteHeader, the bytes Read
\* has returned since then when it reports the end of that file are the
\* bytes written to it, no call fails but with io.EOF, and Next reports the
\* end of the archive after as many names as entries were opened.
C1_RoundTrip ==
    r.opened =>
      /\ r.files <= Len(w.written)
      /\ r.last.err \in {"nil", "EOF"}
      /\ (r.last.op = "Next" /\ r.last.err = "nil") =>
            r.last.name = w.written[r.files].name
      /\ (r.atEOF /\ r.clean) => r.got = w.written[r.files].bytes
      /\ (r.last.op = "Next" /\ r.last.err = "EOF") => r.files = Len(w.written)

\* C2: chunk boundary invariance.  After Close, the producer that passes
\* each slice in one Write and the producer that passes it byte by byte
\* have given their tar writers the same entries: names and bodies.
C2_SameChunks ==
    (w.closed /\ w2.closed) => ArchiveOf(w.entries) = ArchiveOf(w2.entries)

\* C2, amended: after Close the two archives hold the same logical files
\* (names in order, and the bytes of each); they hold the same chunks when
\* no Write of the first producer took its input buffer beyond
\* bufferThreshold + 1 bytes.
C2_SameFiles ==
    (w.closed /\ w2.closed) =>
      /\ Reassemble(ArchiveOf(w.entries)) = Reassemble(ArchiveOf(w2.entries))
      /\ ~crossed => ArchiveOf(w.entries) = ArchiveOf(w2.entries)

\* Both closed, slices of several bytes written, the chunks the same, and
\* one of them cut by Write.
C2_Witness ==
    /\ w.closed /\ w2.closed /\ ~crossed
    /\ BytesWritten(w) > bufferThreshold + 1
    /\ \E j \in 1..Len(w.entries) : w.entries[j].by = "Write"
    /\ \E j \in 1..Len(w2.entries) : w2.entries[j].by = "Write"

\* C3: every tar entry carries the name of the entry that was open when
\* its bytes were written, with the number of chunks cut before it for that
\* entry; it holds bytes of that entry only; and the chunks of an entry
\* come before the chunks of every entry opened later.
C3_NamesAndOrder ==
    \A j \in 1..Len(w.entries) :
       LET e == w.entries[j] IN
       /\ e.ent \in 1..Len(w.written)
       /\ e.name = FormatChunkName(w.written[e.ent].name, IndexInEntry(w, j))
       /\ Range(e.body) \subseteq Range(w.written[e.ent].bytes)
       /\ \A k \in 1..(j - 1) : w.entries[k].ent <= e.ent

\* A closed archive with two chunks of the first entry and then a chunk of
\* the second.
C3_Witness ==
    /\ w.closed
    /\ Len(ChunksOf(w, 1)) >= 2
    /\ Len(ChunksOf(w, 2)) >= 1
    /\ w.written[1].name # w.written[2].name

\* C4: no tar entry has a size or a body of more than bufferLimit bytes.
C4_ChunkAtMostLimit ==
    \A j \in 1..Len(w.entries) :
       /\ w.entries[j].size <= bufferLimit
       /\ Len(w.entries[j].body) <= bufferLimit

\* A Write of more than bufferLimit bytes, called with bytes in the input
\* buffer, has cut a chunk of bufferLimit bytes that begins with them.
C4_Witness ==
    /\ w.last.op = "Write" /\ w.last.err = "nil"
    /\ w.last.size > bufferLimit /\ w.last.buffered > 0
    /\ \E j \in 1..Len(w.entries) :
          /\ Len(w.entries[j].body) = bufferLimit
          /\ w.entries[j].by = "Write"
          /\ w.entries[j].body[1] <= BytesWritten(w) - w.last.size
          /\ w.entries[j].body[bufferLimit] > BytesWritten(w) - w.last.size

\* C5: every tar entry that is not the last one of its entry is larger
\* than bufferThreshold.
C5_AboveThreshold ==
    \A j \in 1..Len(w.entries) :
       NotLastOfEntry(w, j) => w.entries[j].size > bufferThreshold

\* C5, amended: every tar entry that is not the last one of its entry and
\* was not cut by a call of Flush is larger than bufferThreshold; so is
\* every chunk cut by Write.
C5_AboveThresholdButFlush ==
    \A j \in 1..Len(w.entries) :
       /\ (NotLastOfEntry(w, j) /\ w.entries[j].by # "Flush") =>
             w.entries[j].size > bufferThreshold
       /\ w.entries[j].by = "Write" => w.entries[j].size > bufferThreshold

\* An entry with a chunk cut by Write and a later chunk.
C5_Witness ==
    \E j \in 1..Len(w.entries) :
       /\ NotLastOfEntry(w, j)
       /\ w.entries[j].by = "Write"
       /\ Len(w.entries[j].body) = w.entries[j].size

\* C6: once the archive is closed, every opened entry has a chunk, and an
\* entry no byte was written to has one chunk, of size 0 and numbered 0.
C6_EveryEntryHasChunk ==
    w.closed =>
      \A i \in 1..Len(w.written) :
         /\ Len(ChunksOf(w, i)) >= 1
         /\ w.written[i].bytes = <<>> =>
               /\ Len(ChunksOf(w, i)) = 1
               /\ ChunksOf(w, i)[1].size = 0
               /\ ChunksOf(w, i)[1].name = FormatChunkName(w.written[i].name, 0)

\* C7: a call of Flush or Write made on an open Writer after a background
\* goroutine has stored an error returns that error.
C7_LatchedErrorReturned ==
    (w.fg.pc = "idle" /\ w.last.op \in {"Flush", "Write"}
       /\ w.last.latched /\ ~w.last.closedBefore)
    => w.last.err = "sink"

\* C8: once a call of Close has returned, no goroutine is left, the tar
\* writer and the buffers are never touched again, and every call returns
\* the not-open error at once.
C8_ClosedStaysClosed ==
    [][w.closeDone =>
         /\ w.bg = <<>> /\ w.fg.pc = "idle"
         /\ w'.entries = w.entries /\ w'.closed = w.closed /\ w'.buf = w.buf
         /\ w'.bg = <<>> /\ w'.fg.pc = "idle"
         /\ w' # w => w'.last.err = "not open"]_vars

\* A Flush called after a Close that failed.
C8_Witness ==
    /\ w.closeDone /\ ~w.closed
    /\ w.last.closedBefore /\ w.last.op = "Flush"
    /\ w.buf[w.inputBuffer] # <<>>

\* C9: there is at most one background goroutine, counted by the wait
\* group, and none while the foreground is in tarWriter.Flush or
\* tarWriter.Close.
C9_SingleTarUser ==
    /\ Len(w.bg) <= 1
    /\ w.wait = Len(w.bg)
    /\ w.fg.pc \in {"tar_flush", "tar_close"} => w.bg = <<>>

\* The foreground waits in swapInOut while a goroutine writes a chunk.
C9_Witness ==
    /\ w.fg.pc = "swap_wait"
    /\ Len(w.bg) = 1 /\ w.bg[1].pc = "body"

\* The tar header at p is a chunk of the file that is current when it is
\* read and its number is not the next one; or a chunk of another file and
\* its number is not 0.
OrderViolation(rec) ==
    LET h == r.archive[rec.pos].name IN
    ChunkMatch(h) /\ ChunkBase(h) = rec.name /\ ChunkNumber(h) # rec.number + 1

MissingFirst(rec) ==
    LET h == r.archive[rec.pos].name IN
    ChunkMatch(h) /\ ChunkBase(h) # rec.name /\ ChunkNumber(h) # 0

\* Two chunks of one base name follow each other and the number of the
\* second is not the number of the first plus 1.
GapAt(p) ==
    LET g == r.archive[p].name
        h == r.archive[p + 1].name
    IN /\ ChunkMatch(g) /\ ChunkMatch(h)
       /\ ChunkBase(g) = ChunkBase(h)
       /\ ChunkNumber(h) # ChunkNumber(g) + 1

\* C10: for every tar header the Reader has read, an out-of-order chunk of
\* the current file made the call fail with the chunk-order error and a
\* chunk of another file not numbered 0 made it fail with the
\* missing-first-chunk error; and the Reader has not gone past two chunks
\* of one name with a gap between their numbers without a failed call.
C10_OrderEnforced ==
    /\ \A i \in 1..Len(r.log) :
          /\ OrderViolation(r.log[i]) =>
                (r.log[i].verdict = "order" /\ r.log[i].pos \in r.failedAt)
          /\ MissingFirst(r.log[i]) =>
                (r.log[i].verdict = "missing" /\ r.log[i].pos \in r.failedAt)
    /\ \A p \in 1..(Len(r.archive) - 1) :
          (GapAt(p) /\ r.pos >= p + 1) => (r.failedAt \cap {p, p + 1} # {})

\* Chunk 0 and then chunk 2 of one name: the call that read the second
\* header returned the chunk-order error.
C10_Witness ==
    /\ Len(r.archive) = 2
    /\ ChunkMatch(r.archive[1].name) /\ ChunkNumber(r.archive[1].name) = 0
    /\ ChunkMatch(r.archive[2].name) /\ ChunkNumber(r.archive[2].name) = 2
    /\ ChunkBase(r.archive[1].name) = ChunkBase(r.archive[2].name)
    /\ r.pos = 2 /\ r.last.err = "order" /\ r.failedAt = {2}

\* The tar entry the byte b of a Reader's archive lies in.
EntryOfByte(b) == b \div 10

\* A Read called while a name is pending or before the first Next returns
\* no byte and io.EOF.
BlockedReadsReturnEOF ==
    (r.last.op = "Read" /\ r.last.blocked) => (r.last.n = 0 /\ r.last.err = "EOF")

\* Every byte Read has returned since the last name Next returned lies in
\* a tar entry of that logical file.
ReadsStayInFile ==
    \A i \in 1..Len(r.got) : EntryOfByte(r.got[i]) \in r.own

C12_UnchunkedIsOneEntry ==
    \A p \in r.own :
       (p \in 1..Len(r.archive) /\ ~ChunkMatch(r.archive[p].name)) =>
          /\ r.own = {p}
          /\ (r.atEOF /\ r.clean) => r.got = r.archive[p].body

(***************************************************************************)
(* Properties of the driver.                                               *)
(***************************************************************************)
RestoreCollaborators == {"RestoreBeginCollection", "RestoreCollectionMetadata",
                         "RestoreCollectionBSON", "RestoreCollectionIndexes"}

\* The calls of the restore collaborators, in order: what was called, for
\* which collection, with which index specifications.
RestoreCalls(x) ==
    LET q == SelectSeq(x.calls, LAMBDA c : c.op \in RestoreCollaborators) IN
    [i \in 1..Len(q) |-> <<q[i].op, q[i].intent.DB, q[i].intent.C, q[i].specs>>]

\* No collaborator has returned an error and CreateIntentForFile has not
\* refused.
AllSucceeded(x) == \A i \in 1..Len(x.calls) : x.calls[i].res \in {"ok", "called"}

\* RestoreTarDump has returned nil after Scenario D, without filter, with
\* index restoration on and one system.indexes entry, for orders.
ScenarioDDone ==
    /\ d.pc = "returned" /\ d.result = "nil"
    /\ d.files = ScenarioD
    /\ d.opts.DB = "" /\ ~d.opts.NoIndexRestore
    /\ AllSucceeded(d)
    /\ ~d.st.SystemIndexes.nil /\ d.st.SystemIndexes.keys = {"orders"}

\* C13: after Scenario D the calls of the restore collaborators are, in
\* order: begin users, metadata users, BSON users, indexes users with the
\* metadata's indexes, begin orders, BSON orders, indexes orders with the
\* system.indexes entry of orders.
C13_ScenarioDCalls ==
    ScenarioDDone =>
      RestoreCalls(d) =
        << <<"RestoreBeginCollection", "db1", "users", NoIndexes>>,
           <<"RestoreCollectionMetadata", "db1", "users", NoIndexes>>,
           <<"RestoreCollectionBSON", "db1", "users", NoIndexes>>,
           <<"RestoreCollectionIndexes", "db1", "users", <<"metadata", "db1", "users">> >>,
           <<"RestoreBeginCollection", "db1", "orders", NoIndexes>>,
           <<"RestoreCollectionBSON", "db1", "orders", NoIndexes>>,
           <<"RestoreCollectionIndexes", "db1", "orders",
             <<"system.indexes", "db1", "orders">> >> >>

\* Scenario D has been restored.
C13_Witness == ScenarioDDone /\ Len(d.calls) > Len(ScenarioD)

\* What the classifier made of the files read so far.
Infos(x) == [i \in 1..Len(x.files) |-> GetInfoFromTarHeaderName(x.files[i])]

IsSystem(c) == HasPrefix(c, "system.")

\* A valid archive: every name is recognised and has a valid database and
\* collection, no file comes twice, the files of a database and those of a
\* collection are together, the system collections of a database come
\* first and the metadata of a collection comes before its BSON.
ValidArchive(x) ==
    LET f == Infos(x)
        n == Len(x.files) IN
    /\ \A i \in 1..n : /\ f[i].kind # UnknownFileType
                       /\ ValidateDBName(f[i].db)
                       /\ ValidateCollectionGrammar(f[i].c)
    /\ \A i, j \in 1..n : i < j => x.files[i] # x.files[j]
    /\ \A i, j, k \in 1..n :
          i < j /\ j < k /\ f[i].db = f[k].db =>
             /\ f[j].db = f[i].db
             /\ f[i].c = f[k].c => f[j].c = f[i].c
    /\ \A i, j \in 1..n :
          i < j /\ f[i].db = f[j].db =>
             /\ IsSystem(f[j].c) => IsSystem(f[i].c)
             /\ f[i].c = f[j].c /\ f[i].kind = BSONFileType
                   => f[j].kind # MetadataFileType

\* The non-system collections of the archive.
Collections(x) ==
    {<<Infos(x)[i].db, Infos(x)[i].c>> : i \in {j \in 1..Len(x.files) : ~IsSystem(Infos(x)[j].c)}}

HasMetadata(x, dc) ==
    \E i \in 1..Len(x.files) :
        Infos(x)[i] = [db |-> dc[1], c |-> dc[2], kind |-> MetadataFileType]

\* The system.indexes of the collection's database had an entry for it.
HasSystemIndexes(x, dc) ==
    \E i \in 1..Len(x.calls) :
        /\ x.calls[i].op = "IndexesFromBSONReader" /\ x.calls[i].res = "ok"
        /\ Infos(x)[x.calls[i].file].db = dc[1]
        /\ dc[2] \in x.calls[i].keys

IndexCalls(x, dc) ==
    Cardinality({i \in 1..Len(x.calls) :
                    /\ x.calls[i].op = "RestoreCollectionIndexes"
                    /\ ~x.calls[i].intent.nil
                    /\ x.calls[i].intent.DB = dc[1] /\ x.calls[i].intent.C = dc[2]})

\* RestoreTarDump has returned nil after a valid archive, every
\* collaborator having succeeded.
ValidArchiveDone ==
    /\ d.pc = "returned" /\ d.result = "nil"
    /\ d.opts.DB = ""
    /\ AllSucceeded(d)
    /\ ValidArchive(d)

\* C14: after a valid archive, RestoreCollectionIndexes has been called
\* exactly once for each non-system collection that has a metadata file or
\* an entry in the system.indexes of its database, and not at all for any
\* other non-system collection.
C14_OneIndexCallPerCollection ==
    ValidArchiveDone =>
      \A dc \in Collections(d) :
         IndexCalls(d, dc) = IF HasMetadata(d, dc) \/ HasSystemIndexes(d, dc)
                             THEN 1 ELSE 0

\* RestoreCollectionBSON has completed for the collection of file f, which
\* has been the current collection ever since.
BSONRestoredBefore(x, f) ==
    \E j \in 1..Len(x.calls) :
        /\ x.calls[j].op = "RestoreCollectionBSON" /\ x.calls[j].res = "ok"
        /\ x.calls[j].file < f
        /\ \A g \in x.calls[j].file..f :
              /\ Infos(x)[g].db = Infos(x)[f].db
              /\ Infos(x)[g].c = Infos(x)[f].c

\* C15: a metadata file that comes after RestoreCollectionBSON completed for
\* the same, still current, collection is skipped: no RestoreBeginCollection
\* and no RestoreCollectionMetadata call is made for it.
C15_LateMetadataSkipped ==
    \A i \in 1..Len(d.calls) :
        LET f == d.calls[i].file IN
        (/\ f > 0
         /\ Infos(d)[f].kind = MetadataFileType
         /\ BSONRestoredBefore(d, f))
        => d.calls[i].op \notin {"RestoreBeginCollection", "RestoreCollectionMetadata"}

\* C16: a collaborator that returned an error made the last call, and
\* RestoreTarDump has returned an error.
C16_FailuresAreFatal ==
    \A i \in 1..Len(d.calls) :
        d.calls[i].res = "error" =>
            /\ i = Len(d.calls)
            /\ d.pc = "returned" /\ d.result = "error"

\* C19: RestoreBeginCollection and RestoreCollectionIndexes are never
\* called with the intent of a system collection.
C19_SystemCollectionsBypass ==
    \A i \in 1..Len(d.calls) :
        d.calls[i].op \in {"RestoreBeginCollection", "RestoreCollectionIndexes"}
        => d.calls[i].intent.nil \/ ~IsSystem(d.calls[i].intent.C)

\* chunkReader.Next returns a file in this step.
FileRead == d.pc = "next" /\ Len(d'.files) = Len(d.files) + 1

\* The file this step reads, classified.
NewFile == GetInfoFromTarHeaderName(d'.files[Len(d'.files)])

\* The step skips its file: the driver's state and the calls are as before
\* and the driver is back at chunkReader.Next.
Skipped == d'.st = d.st /\ d'.calls = d.calls /\ d'.pc = "next"

ScenarioE == <<"db1/orders.bson", "db1/users.bson">>

\* RestoreTarDump has returned nil after Scenario E, restoring db1.users
\* only.
ScenarioEDone ==
    /\ d.pc = "returned" /\ d.result = "nil"
    /\ d.files = ScenarioE
    /\ d.opts.DB = "db1" /\ d.opts.Collection = "users"
    /\ AllSucceeded(d)

\* C17: in single_collection mode a file of a non-system collection other
\* than the configured one is skipped, with no collaborator call and no
\* change of the driver's state; after Scenario E the only restore calls
\* are begin users and BSON users.
C17_OtherCollectionsSkipped ==
    [][/\ (/\ FileRead
           /\ d.st.SingleCollection
           /\ ~IsSystem(NewFile.c)
           /\ NewFile.c # d.opts.Collection) => Skipped
       /\ ScenarioEDone' =>
             RestoreCalls(d') =
               << <<"RestoreBeginCollection", "db1", "users", NoIndexes>>,
                  <<"RestoreCollectionBSON", "db1", "users", NoIndexes>> >>]_vars

\* Scenario E has been restored.
C17_Witness == ScenarioEDone /\ d.st.SingleCollection /\ Len(d.calls) > 0

\* In single_db mode the current database is the configured one, no
\* database is past and no call has the intent of another database; the
\* two mode flags are as constructed.
SingleDbFrame(x) ==
    /\ x.st.SingleDb = (x.opts.DB # "")
    /\ x.st.SingleCollection = (x.opts.Collection # "")
    /\ x.st.SingleDb =>
          /\ x.st.CurrentDb = x.opts.DB
          /\ x.st.PastDbs = <<>>
          /\ \A i \in 1..Len(x.calls) :
                x.calls[i].intent.nil \/ x.calls[i].intent.DB = x.opts.DB

\* C18: in single_db mode current_db never changes and past_dbs stays
\* empty, a file of another database is skipped with no state change and no
\* collaborator call, no call has the intent of another database, and
\* single_db and single_collection never change.
C18_SingleDbFrame ==
    [][/\ SingleDbFrame(d) /\ SingleDbFrame(d')
       /\ (/\ FileRead
           /\ d.st.SingleDb
           /\ NewFile.db # d.opts.DB) => Skipped]_vars

\* In single_db mode a file of another database was read and then a file
\* of the configured database was restored.
C18_Witness ==
    /\ d.st.SingleDb
    /\ \E i \in 1..Len(d.files) :
          /\ Infos(d)[i].db = "db2"
          /\ \E j \in 1..Len(d.calls) :
                /\ d.calls[j].file > i
                /\ d.calls[j].op = "RestoreCollectionBSON" /\ d.calls[j].res = "ok"

(***************************************************************************)
(* Properties of the Writer's two buffers.                                 *)
(***************************************************************************)
\* The step is one of the foreground: a call starts, or goes on from where
\* it was blocked.
ForegroundMoved == w'.fg # w.fg \/ w'.last # w.last

\* A goroutine started by swapInOut has not finished.
InFlight == w.bg # <<>>

\* The step exchanges the two buffers.
Exchanged == w'.inputBuffer # w.inputBuffer \/ w'.outputBuffer # w.outputBuffer

\* The step is the foreground's return from wait.Wait(), after which it
\* reads outputError.
ReadsOutputError == w.fg.pc \in {"swap_wait", "flush_wait"} /\ w'.fg # w.fg

\* C20: the buffer the foreground appends to or resets is never the one a
\* running background goroutine drains, the buffers are exchanged only when
\* no background goroutine is in flight, and the foreground reads
\* outputError only after the barrier, when none is in flight.
C20_BufferOwnership ==
    [][/\ w.inputBuffer # w.outputBuffer
       /\ (InFlight /\ ForegroundMoved) =>
             w'.buf[w.outputBuffer] = w.buf[w.outputBuffer]
       /\ Exchanged => ~InFlight
       /\ ReadsOutputError => ~InFlight]_vars

\* A Write has appended to the input buffer, and returned, while the
\* goroutine of an earlier swap is still running.
C20_Witness ==
    /\ InFlight
    /\ w.fg.pc = "idle"
    /\ w.last.op = "Write" /\ w.last.err = "nil"
    /\ w.last.size > 0 /\ w.last.buffered = 0
    /\ InputLen(w) = w.last.size

(***************************************************************************)
(* Properties of the Reader over correctly ordered chunks.                 *)
(***************************************************************************)
\* The names of the logical files of an archive, in order.
RECURSIVE LogicalNames(_)
LogicalNames(archive) ==
    IF archive = <<>> THEN <<>>
    ELSE LET front == LogicalNames(SubSeq(archive, 1, Len(archive) - 1))
             base == ChunkBase(archive[Len(archive)].name)
         IN IF front # <<>> /\ front[Len(front)] = base THEN front
            ELSE Append(front, base)

\* The bytes of the chunks of a logical file, in order.
RECURSIVE BytesOf(_, _)
BytesOf(archive, base) ==
    IF archive = <<>> THEN <<>>
    ELSE LET front == BytesOf(SubSeq(archive, 1, Len(archive) - 1), base)
             e == archive[Len(archive)]
         IN IF ChunkBase(e.name) = base THEN front \o e.body ELSE front

\* Read has reported io.EOF for the current logical file only with all the
\* bytes of its chunks returned.
EndOnlyAfterAllBytes(x) ==
    (x.files > 0 /\ x.atEOF) =>
        x.got = BytesOf(x.archive, LogicalNames(x.archive)[x.files])

\* C21: over correctly ordered chunks, of size zero too, Read reports
\* end-of-entry for the current logical file only after it has returned
\* every byte of every chunk of the file, and a Next called after that
\* passes over no chunk of that file.
C21_EndAfterLastChunk ==
    [][/\ EndOnlyAfterAllBytes(r')
       /\ (r.atEOF /\ r'.last.op = "Next" /\ r' # r) =>
             \A i \in (Len(r.log) + 1)..Len(r'.log) : r'.log[i].verdict # "cont"]_vars

(***************************************************************************)
(* Further properties of the driver.                                       *)
(***************************************************************************)
\* Calls i and j are made for one non-system collection, with no file of
\* another collection read from the one to the other.
SameCollectionRun(x, i, j) ==
    LET f == x.calls[i].file
        g == x.calls[j].file IN
    /\ i < j /\ f > 0
    /\ ~x.calls[i].intent.nil /\ ~IsSystem(x.calls[i].intent.C)
    /\ x.calls[j].intent = [x.calls[i].intent EXCEPT !.kind = x.calls[j].intent.kind]
    /\ \A h \in f..g : /\ Infos(x)[h].db = x.calls[i].intent.DB
                       /\ Infos(x)[h].c = x.calls[i].intent.C

\* C22: over the files of one non-system collection, with no collection
\* transition between them, RestoreBeginCollection is not called after a
\* RestoreBeginCollection, RestoreCollectionMetadata or
\* RestoreCollectionBSON call that succeeded.
C22_BeginAtMostOnce ==
    \A i, j \in 1..Len(d.calls) :
        (/\ SameCollectionRun(d, i, j)
         /\ d.calls[i].res = "ok"
         /\ d.calls[i].op \in {"RestoreBeginCollection", "RestoreCollectionMetadata",
                               "RestoreCollectionBSON"})
        => d.calls[j].op # "RestoreBeginCollection"

\* File f has a recognised name with a valid database and collection.
ValidFile(x, f) ==
    /\ Infos(x)[f].kind # UnknownFileType
    /\ ValidateDBName(Infos(x)[f].db)
    /\ ValidateCollectionGrammar(Infos(x)[f].c)

\* The collection of file f had a metadata file restored, in the run of
\* its files that ends with f.
MetadataRestored(x, f) ==
    \E i \in 1..Len(x.calls) :
        /\ x.calls[i].op = "RestoreCollectionMetadata" /\ x.calls[i].res = "ok"
        /\ x.calls[i].file <= f
        /\ \A h \in x.calls[i].file..f : /\ Infos(x)[h].db = Infos(x)[f].db
                                          /\ Infos(x)[h].c = Infos(x)[f].c

\* The index specifications pending for the collection of file f: those of
\* its metadata, else those of its database's system.indexes, else none.
PendingIndexes(x, f) ==
    LET dc == <<Infos(x)[f].db, Infos(x)[f].c>> IN
    IF MetadataRestored(x, f) THEN <<"metadata", dc[1], dc[2]>>
    ELSE IF HasSystemIndexes(x, dc) THEN <<"system.indexes", dc[1], dc[2]>>
    ELSE NoIndexes

\* C23: when the first file of a new database arrives and the last
\* collection of the previous database has pending indexes,
\* RestoreCollectionIndexes is called for that collection, with its
\* metadata indexes or else its system.indexes entry, before any
\* collaborator call for the new database.
C23_DatabaseTransitionFlushes ==
    \A j \in 1..Len(d.calls) :
        LET f == d.calls[j].file IN
        (/\ d.opts.DB = ""
         /\ d.calls[j].op = "CreateIntentForFile"
         /\ \A k \in 1..(j - 1) : d.calls[k].res = "ok"
         /\ f > 1 /\ ValidFile(d, f) /\ ValidFile(d, f - 1)
         /\ Infos(d)[f].db # Infos(d)[f - 1].db
         /\ ~IsSystem(Infos(d)[f - 1].c)
         /\ PendingIndexes(d, f - 1) # NoIndexes)
        => \E i \in 1..(j - 1) :
              /\ d.calls[i].file = f
              /\ d.calls[i].op = "RestoreCollectionIndexes"
              /\ ~d.calls[i].intent.nil
              /\ d.calls[i].intent.DB = Infos(d)[f - 1].db
              /\ d.calls[i].intent.C = Infos(d)[f - 1].c
              /\ d.calls[i].specs = PendingIndexes(d, f - 1)

\* The collection ChangeCollection is leaving, while it waits in
\* RestoreCollectionIndexes: the last of the past collections, in the past
\* database when ChangeDatabase made the call.
LeftCollection(x) ==
    <<IF x.site = "db" THEN x.st.PastDbs[Len(x.st.PastDbs)] ELSE x.st.CurrentDb,
      x.st.PastCollections[Len(x.st.PastCollections)]>>

\* C24: ChangeCollection never reads the collection of a nil intent, and
\* it calls RestoreCollectionIndexes with an intent that is not nil and is
\* that of the collection it leaves, whatever CreateIntentForFile refused.
C24_IntentAtTransition ==
    /\ d.pc # "panic"
    /\ d.pc = "indexes" =>
          LET c == d.calls[Len(d.calls)] IN
          /\ ~c.intent.nil
          /\ d.st.PastCollections # <<>>
          /\ (d.site = "db" => d.st.PastDbs # <<>>)
          /\ <<c.intent.DB, c.intent.C>> = LeftCollection(d)

\* Call i is a call of op for the configured collection.
ForConfigured(x, i, op) ==
    /\ x.calls[i].op = op
    /\ ~x.calls[i].intent.nil
    /\ x.calls[i].intent.DB = x.opts.DB /\ x.calls[i].intent.C = x.opts.Collection

\* C25: in single_collection mode, after a valid archive, every file of the
\* configured collection has been restored: RestoreBeginCollection, then
\* RestoreCollectionMetadata or RestoreCollectionBSON for the file, then
\* RestoreCollectionIndexes when indexes are pending, also when files of
\* system collections of the database come first.
C25_ConfiguredCollectionRestored ==
    (/\ d.pc = "returned" /\ d.result = "nil"
     /\ d.st.SingleCollection
     /\ AllSucceeded(d)
     /\ ValidArchive(d))
    => \A f \in 1..Len(d.files) :
          (Infos(d)[f].db = d.opts.DB /\ Infos(d)[f].c = d.opts.Collection) =>
             \E j \in 1..Len(d.calls) :
                /\ d.calls[j].file = f
                /\ ForConfigured(d, j, IF Infos(d)[f].kind = MetadataFileType
                                       THEN "RestoreCollectionMetadata"
                                       ELSE "RestoreCollectionBSON")
                /\ \E i \in 1..(j - 1) : ForConfigured(d, i, "RestoreBeginCollection")
                /\ PendingIndexes(d, f) # NoIndexes =>
                      \E k \in (j + 1)..Len(d.calls) :
                          ForConfigured(d, k, "RestoreCollectionIndexes")

(***************************************************************************)
(* The bytes of the Writer's chunks.                                       *)
(***************************************************************************)
\* The bodies of a sequence of tar entries, one after the other.
RECURSIVE Bodies(_)
Bodies(q) == IF q = <<>> THEN <<>>
             ELSE Bodies(SubSeq(q, 1, Len(q) - 1)) \o q[Len(q)].body

\* A call of Close has returned nil.
ClosedWithoutError ==
    w.closed /\ w.fg.pc = "idle" /\ w.last.op = "Close" /\ w.last.err = "nil"

\* C26: after a Close that returned no error, for every entry bytes were
\* written to, the bodies of its chunks in order are the bytes passed to
\* Write for it, in order.
C26_NoByteLost ==
    ClosedWithoutError =>
      \A i \in 1..Len(w.written) :
         w.written[i].bytes # <<>> => Bodies(ChunksOf(w, i)) = w.written[i].bytes

\* A closed archive with an entry of more than bufferLimit bytes in
\* several chunks, one of them full.
C26_Witness ==
    /\ ClosedWithoutError
    /\ \E i \in 1..Len(w.written) :
          /\ Len(w.written[i].bytes) > bufferLimit
          /\ Len(ChunksOf(w, i)) >= 2
          /\ \E j \in 1..Len(ChunksOf(w, i)) : ChunksOf(w, i)[j].size = bufferLimit

====
